---- MODULE Spec2Model ----
(***************************************************************************)
(* Model of controllers/node.go: the middlewares (authorize, nodeauth),    *)
(* the listing of nodes (getAllNodes, getUsersNodes),                      *)
(* the node lifecycle handlers (createNode, uncordonNode, updateNode,      *)
(* deleteNode), the relay-address repair (updateRelay) and the detached    *)
(* propagation tasks (runUpdates, runServerUpdate, runForceServerUpdate).  *)
(*                                                                         *)
(* The specifications share the variables:                                 *)
(*   SpecAuth      one request at a time through authorize                 *)
(*   Spec          the lifecycle handlers over the node store, plus the    *)
(*                 background propagation tasks they schedule              *)
(*   SpecRelay     updateNode / updateRelay over a relay and its relayed   *)
(*                 nodes                                                   *)
(*   SpecUpdate    updateNode over one node, server or not, and the        *)
(*                 propagation it starts                                   *)
(*   SpecTopology  deleteNode and updateNode over a relay and its nodes    *)
(*   SpecRace      two updateNode calls served in parallel, step by step   *)
(*   SpecRepair    updateRelay applied again with the same arguments       *)
(*   SpecList      GET /api/nodes: getAllNodes behind authorize            *)
(*   SpecRegister  POST /api/nodes/{network}: createNode behind nodeauth   *)
(***************************************************************************)
EXTENDS Integers, Sequences, FiniteSets, TLC

VARIABLES
    auth,      \* the last request through authorize and what authorize did with it
    nodes,     \* the node store: node ID -> node record (absent IDs are not in the domain)
    manual,    \* network name -> AllowManualSignUp ("yes"/"no"), for the networks that exist
    tasks,     \* the goroutines started by runUpdates / runForceServerUpdate, in start order
    last,      \* the last handler call: its request, its response (code, body), its ordered effects
    nreq,      \* number of handler calls so far (request number)
    upd,       \* the last updateNode call: what it read (body, settings, stored node)
    procs      \* the updateNode calls in progress, step by step, of SpecRace

vars == <<auth, nodes, manual, tasks, last, nreq, upd, procs>>

----------------------------------------------------------------------------
(* Bounds *)

\* handler calls per behaviour
MaxReq == 2

----------------------------------------------------------------------------
(* Universe of values *)

\* node IDs that node tokens and request paths name
NodeIDs == {"n1", "n2"}
\* networks that exist in the store
Networks == {"net1"}
\* values of the {network} path variable: absent from the route (""), existing, not existing
PathNetworks == {"", "net1", "ghost"}
Scopes == {"all", "nodes", "network", "node", "user", "other"}

\* mux.Vars(r)[k]: a Go map read, "" for a key the route does not declare
ParamsGet(params, k) == IF k \in DOMAIN params THEN params[k] ELSE ""

\* logic.StringSliceContains
StringSliceContains(slice, s) == s \in slice

----------------------------------------------------------------------------
(* authorize *)

\* Outcomes of logic.VerifyUserToken(authToken): an error, or (username, networks, isadmin).
UserResults ==
    { [err |-> TRUE,  username |-> "",      networks |-> {},       isadmin |-> FALSE],
      [err |-> FALSE, username |-> "alice", networks |-> {"net1"}, isadmin |-> FALSE],
      [err |-> FALSE, username |-> "bob",   networks |-> {},       isadmin |-> FALSE],
      [err |-> FALSE, username |-> "",      networks |-> {},       isadmin |-> FALSE],
      [err |-> FALSE, username |-> "root",  networks |-> {},       isadmin |-> TRUE] }

\* A credential is what the two verifiers answer for it.  bearer: the Authorization
\* header splits into at least two words.  nodeErr / nodeID: logic.VerifyToken.
Credentials ==
    { c \in [bearer : BOOLEAN, nodeErr : BOOLEAN, nodeID : NodeIDs \cup {""},
             user : UserResults] :
        /\ (c.nodeErr <=> c.nodeID = "")
        /\ (~c.bearer => c.nodeErr /\ c.user.err) }

\* What authorize has done so far with a request: the error responses written
\* (returnErrorResponse), the calls of next.ServeHTTP, and the request headers.
NoOutcome(hdrs) == [rejections |-> <<>>, served |-> 0, hdrs |-> hdrs]

Reject(out, code) == [out EXCEPT !.rejections = Append(@, code)]
Serve(out) == [out EXCEPT !.served = @ + 1]
HeaderSet(out, k, v) == [out EXCEPT !.hdrs = [@ EXCEPT ![k] = v]]

\* line 180: the network-existence precondition
NetworkGateAlways(networkCheck, networkexists) == ~networkexists
NetworkGate(networkCheck, networkexists) == networkCheck /\ ~networkexists

\* lines 208-214: a verified node token is let through on a nodesAllowed route
NodeShortcutAnyRoute(nodesAllowed, cred) == ~cred.nodeErr
NodeShortcut(nodesAllowed, cred) == nodesAllowed /\ ~cred.nodeErr

\* lines 244-273: the switch on the route's scope.  nodeID is "" here (it is
\* "mastermac" only on the branch that does not reach the switch);
\* getNodeErr / nodeNetwork: logic.GetNodeByID(nodeID).
\* Result: [reject |-> an early error response was written, ok |-> isAuthorized].
ScopeSwitch(authNetwork, nodeID, isnetadmin, params, getNodeErr, nodeNetwork) ==
    CASE authNetwork = "all"   -> [reject |-> FALSE, ok |-> TRUE]
      [] authNetwork = "nodes" -> [reject |-> FALSE, ok |-> (nodeID # "") \/ isnetadmin]
      [] authNetwork = "network" ->
            IF isnetadmin THEN [reject |-> FALSE, ok |-> TRUE]
            ELSE IF getNodeErr THEN [reject |-> TRUE, ok |-> FALSE]
            ELSE [reject |-> FALSE, ok |-> (nodeNetwork = ParamsGet(params, "network"))]
      [] authNetwork = "node" ->
            IF isnetadmin THEN [reject |-> FALSE, ok |-> TRUE]
            ELSE [reject |-> FALSE, ok |-> (nodeID = ParamsGet(params, "netid"))]
      [] authNetwork = "user"  -> [reject |-> FALSE, ok |-> TRUE]
      [] OTHER                 -> [reject |-> FALSE, ok |-> FALSE]

\* lines 275-288 without the else: the handler runs after the rejection
FinishFallThrough(out, isAuthorized, username) ==
    IF ~isAuthorized
    THEN Serve(Reject(out, "unauthorized"))
    ELSE Serve(HeaderSet(out, "user",
                         IF username = "" THEN "(user not found)" ELSE username))
\* lines 275-288: reject, or set the user header and run the handler
Finish(out, isAuthorized, username) ==
    IF ~isAuthorized
    THEN Reject(out, "unauthorized")
    ELSE Serve(HeaderSet(out, "user",
                         IF username = "" THEN "(user not found)" ELSE username))

\* lines 216-288: the path through logic.VerifyUserToken
UserPath(authNetwork, params, cred, getNodeErr, nodeNetwork, out) ==
    LET u == cred.user IN
    IF u.err THEN Reject(out, "unauthorized")
    ELSE
      LET nodeID     == IF u.isadmin THEN "mastermac" ELSE ""
          out1       == IF u.isadmin THEN HeaderSet(out, "ismasterkey", "yes") ELSE out
          isnetadmin == u.isadmin \/
                        (/\ ~u.isadmin
                         /\ ParamsGet(params, "network") # ""
                         /\ StringSliceContains(u.networks, ParamsGet(params, "network")))
      IN
      IF nodeID = "mastermac"
      THEN Finish(HeaderSet(out1, "ismasterkey", "yes"), TRUE, u.username)
      ELSE
        LET d == ScopeSwitch(authNetwork, nodeID, isnetadmin, params,
                             getNodeErr, nodeNetwork)
        IN IF d.reject THEN Reject(out1, "unauthorized")
           ELSE Finish(out1, d.ok, u.username)

\* lines 169-291
authorize(nodesAllowed, networkCheck, authNetwork, params, hdrs, cred, networkexists, getNodeErr, nodeNetwork) ==
    LET out == NoOutcome(hdrs) IN
    IF NetworkGate(networkCheck, networkexists) THEN Reject(out, "notfound")
    ELSE IF ~cred.bearer THEN Reject(out, "unauthorized")
    ELSE IF NodeShortcut(nodesAllowed, cred) THEN Serve(out)
    ELSE UserPath(authNetwork, params, cred, getNodeErr, nodeNetwork, out)

\* functions.NetworkExists(params["network"]), its error dropped (line 177)
NetworkExists(name) == name \in Networks

AuthInit ==
    [nodesAllowed |-> FALSE, networkCheck |-> FALSE, authNetwork |-> "user",
     params |-> [network |-> "", nodeid |-> ""],
     cred |-> [bearer |-> FALSE, nodeErr |-> TRUE, nodeID |-> "",
               user |-> [err |-> TRUE, username |-> "", networks |-> {},
                         isadmin |-> FALSE]],
     getNodeErr |-> TRUE,
     out |-> NoOutcome([user |-> "", ismasterkey |-> ""])]

\* One request through a route wrapped by authorize.  authorize keeps no state
\* between requests, so a behaviour carries one request.
AuthorizeRequest ==
    /\ auth = AuthInit
    /\ \E nodesAllowed \in BOOLEAN, networkCheck \in BOOLEAN, authNetwork \in Scopes,
       network \in PathNetworks, nodeid \in NodeIDs, cred \in Credentials,
       clientMaster \in {"", "yes"}, getNodeErr \in BOOLEAN :
        LET params == [network |-> network, nodeid |-> nodeid]
            hdrs   == [user |-> "", ismasterkey |-> clientMaster]
        IN
        auth' = [nodesAllowed |-> nodesAllowed, networkCheck |-> networkCheck,
                    authNetwork |-> authNetwork, params |-> params, cred |-> cred,
                    getNodeErr |-> getNodeErr,
                    out |-> authorize(nodesAllowed, networkCheck, authNetwork, params,
                                      hdrs, cred, NetworkExists(network),
                                      getNodeErr, "net1")]
    /\ UNCHANGED <<nodes, manual, tasks, last, nreq, upd, procs>>

----------------------------------------------------------------------------
(* The node store and the detached propagation tasks *)

\* the IDs logic.CreateNode gives out (uuid.NewString: never one given before);
\* the k-th handler call that creates a node creates IdSeq[k]
IdSeq == <<"n1", "n2", "n3", "n4">>
\* the tunnel address logic.CreateNode assigns (UniqueAddress)
AddrSeq == <<"a1", "a2", "a3", "a4">>

\* models.NODE_DELETE
NODE_DELETE == "delete"

Exists(store, id) == id \in DOMAIN store
Put(store, id, node) == [k \in DOMAIN store \cup {id} |-> IF k = id THEN node ELSE store[k]]
Remove(store, id) == [k \in DOMAIN store \ {id} |-> store[k]]

\* lines 764-766
isServerNever(node) == FALSE
isServer(node) == node.isserver = "yes"

\* A started goroutine: which handler call started it, with which function, the
\* node its pointer argument pointed to when it was started, the ifaceDelta
\* argument, the values the pointed-to variable is given after the start (later:
\* none, except for the loop variable of lines 661-663), and (once it has run)
\* what it met and the calls it made.
Task(req, by, kind, node, ifaceDelta) == [req |-> req, by |-> by, kind |-> kind, node |-> node, ifaceDelta |-> ifaceDelta, later |-> <<>>, done |-> FALSE, met |-> [clientMode |-> "off", localErr |-> FALSE, leader |-> FALSE, leaderErr |-> FALSE], calls |-> <<>>]

\* A call of a collaborator by a goroutine: mq.NodeUpdate, mq.PublishPeerUpdate or
\* logic.ServerUpdate, the node it is made for, and whether it returned an error
\* (the goroutines only log the error).
Call(op, to, err) == [op |-> op, to |-> to, err |-> err]

\* lines 725-747 with the reload left out when the peer update was not published
runServerUpdateReloadIfPublished(node, ifaceDelta, clientMode, localErr, leader, peerErr) ==
    IF clientMode # "on" \/ ~(node.isserver = "yes") THEN <<>>
    ELSE IF localErr THEN <<>>
    ELSE IF ifaceDelta /\ leader /\ ~peerErr
         THEN << Call("PublishPeerUpdate", "localserver", peerErr), Call("ServerUpdate", "localserver", FALSE) >>
         ELSE IF ifaceDelta /\ leader THEN << Call("PublishPeerUpdate", "localserver", peerErr) >> ELSE <<>>
\* lines 725-747: the calls runServerUpdate makes.  clientMode: servercfg.IsClientMode();
\* localErr: logic.GetNetworkServerLocal fails; leader: logic.IsLeader(&currentServerNode);
\* peerErr: mq.PublishPeerUpdate fails.
runServerUpdate(node, ifaceDelta, clientMode, localErr, leader, peerErr) ==
    IF clientMode # "on" \/ ~isServer(node) THEN <<>>
    ELSE IF localErr THEN <<>>
    ELSE (IF ifaceDelta /\ leader
          THEN << Call("PublishPeerUpdate", "localserver", peerErr) >>
          ELSE <<>>)
         \o << Call("ServerUpdate", "localserver", FALSE) >>

\* lines 711-722 with the publish repeated
runUpdatesTwice(node, ifaceDelta, clientMode, localErr, leader, nodeErr, peerErr) ==
    << Call("NodeUpdate", node[1].id, nodeErr), Call("NodeUpdate", node[1].id, nodeErr) >>
\* lines 711-722: the calls the goroutine of runUpdates makes.  nodeErr: mq.NodeUpdate fails.
\* node is a pointer, followed when the goroutine runs: node[1] is what line 714
\* finds behind it, node[2] what line 718 finds.
runUpdates(node, ifaceDelta, clientMode, localErr, leader, nodeErr, peerErr) ==
    << Call("NodeUpdate", node[1].id, nodeErr) >>
    \o runServerUpdate(node[2], ifaceDelta, clientMode, localErr, leader, peerErr)

\* lines 749-762 with the reload left out when the peer update failed
runForceServerUpdateStopOnError(node, leaderErr, peerErr) ==
    << Call("PublishPeerUpdate", node.id, peerErr) >>
    \o (IF leaderErr \/ peerErr THEN <<>> ELSE << Call("ServerUpdate", "leader", FALSE) >>)
\* lines 749-762: the calls the goroutine of runForceServerUpdate makes.
\* leaderErr: logic.GetNetworkServerLeader fails; peerErr: mq.PublishPeerUpdate fails.
runForceServerUpdate(node, leaderErr, peerErr) ==
    << Call("PublishPeerUpdate", node.id, peerErr) >>
    \o (IF leaderErr THEN <<>> ELSE << Call("ServerUpdate", "leader", FALSE) >>)

\* What a goroutine met while it ran: the answers of the collaborators it asked
\* (those it did not ask are left at their defaults).
Met(clientMode, localErr, leader, leaderErr) == [clientMode |-> clientMode, localErr |-> localErr, leader |-> leader, leaderErr |-> leaderErr]

\* What a goroutine finds behind its node pointer: the value at its start (j = 0)
\* or one the variable was given later.  The loop of lines 661-663 hands every
\* goroutine the address of its one loop variable and goes on assigning to it, so
\* a goroutine finds the node of its own iteration or of any later one, depending
\* on when it runs (the unsynchronised read may also be torn; only whole values
\* are modelled).
Deref(t, j) == IF j = 0 THEN t.node ELSE t.later[j]

\* A goroutine started by runUpdates runs to its end.  The inputs runServerUpdate
\* does not read (it returns at line 728 or 733) are not varied.
RunUpdatesTask ==
    \E i \in 1..Len(tasks), clientMode \in {"on", "off"}, nodeErr \in BOOLEAN :
        /\ ~tasks[i].done /\ tasks[i].kind = "runUpdates"
        /\ \E j1 \in 0..Len(tasks[i].later) : \E j2 \in j1..Len(tasks[i].later) :
           LET node == << Deref(tasks[i], j1), Deref(tasks[i], j2) >> IN
           \E localErr \in (IF clientMode = "on" /\ isServer(node[2]) THEN BOOLEAN ELSE {FALSE}) :
           \E leader \in (IF clientMode = "on" /\ isServer(node[2]) /\ ~localErr /\ tasks[i].ifaceDelta THEN BOOLEAN ELSE {FALSE}) :
           \E peerErr \in (IF leader THEN BOOLEAN ELSE {FALSE}) :
              tasks' = [tasks EXCEPT ![i] = [@ EXCEPT !.done = TRUE, !.met = Met(clientMode, localErr, leader, FALSE), !.calls = runUpdates(node, tasks[i].ifaceDelta, clientMode, localErr, leader, nodeErr, peerErr)]]
        /\ UNCHANGED <<auth, nodes, manual, last, nreq, upd, procs>>

\* A goroutine started by runForceServerUpdate runs to its end.
RunForceTask ==
    \E i \in 1..Len(tasks), leaderErr \in BOOLEAN, peerErr \in BOOLEAN :
        /\ ~tasks[i].done /\ tasks[i].kind = "runForceServerUpdate"
        /\ tasks' = [tasks EXCEPT ![i] = [@ EXCEPT !.done = TRUE, !.met = Met("off", FALSE, FALSE, leaderErr), !.calls = runForceServerUpdate(tasks[i].node, leaderErr, peerErr)]]
        /\ UNCHANGED <<auth, nodes, manual, last, nreq, upd, procs>>

----------------------------------------------------------------------------
(* The lifecycle handlers *)

\* the access keys of each network (network.AccessKeys)
AccessKeys == [n \in Networks |-> {"k1"}]
\* logic.IsKeyValid(networkName, node.AccessKey)
IsKeyValid(network, key) == key \in AccessKeys[network]

\* The node decoded from a registration body (line 430): the fields the handler reads.
\* mine: node.TrafficKeys.Mine, "" for nil.
Drafts == [accesskey : {"k1", "bad"}, ispending : {"", "yes"}, isserver : {"no", "yes"}, mine : {"", "pub"}]

\* What a handler call leaves behind: the store, the goroutines it started, and
\* the record of the call (response code, message logged, ordered effects).
Result(store, started, handler, id, code, log, validKey, trace) == [nodes |-> store, started |-> started, handler |-> handler, id |-> id, code |-> code, log |-> log, validKey |-> validKey, trace |-> trace]

\* lines 448-461: what an access key decides.  reject: the unauthorized response;
\* ispending: node.IsPending after the block.
PendingDecision(validKey, allowManual, draftPending) ==
    IF validKey THEN [reject |-> FALSE, ispending |-> draftPending]
    ELSE IF allowManual = "yes" THEN [reject |-> FALSE, ispending |-> "yes"]
    ELSE [reject |-> TRUE, ispending |-> draftPending]

\* lines 462-477 without the check of the node's own key
TrafficKeyFaultServerOnly(keyOutcome, mine) ==
    CASE keyOutcome = "err" -> "error retrieving key: "
      [] keyOutcome = "nil" -> "error: server traffic key is nil"
      [] OTHER -> ""
\* lines 462-477: the message logged when a traffic key is missing, "" when both
\* are there.  keyOutcome: logic.RetrievePublicTrafficKey() fails, gives nil, gives a key.
TrafficKeyFault(keyOutcome, mine) ==
    CASE keyOutcome = "err" -> "error retrieving key: "
      [] keyOutcome = "nil" -> "error: server traffic key is nil"
      [] mine = ""          -> "error: node traffic key is nil"
      [] OTHER -> ""

\* logic.CreateNode: the record that is stored for a draft
NewNode(id, addr, network, accesskey, ispending, isserver) == [id |-> id, network |-> network, accesskey |-> accesskey, address |-> addr, address6 |-> "", ispending |-> IF ispending = "" THEN "no" ELSE ispending, isserver |-> isserver, isrelay |-> "no", isrelayed |-> "no", relayaddrs |-> <<>>, action |-> "", postup |-> "", postdown |-> ""]

\* the collaborator calls of createNode that can fail, in call order
CreateFaults == {"none", "NetworkExists", "Decode", "GetNetworkByNode", "GetNetworkSettings", "CreateNode", "GetPeerUpdate"}

\* lines 405-505
createNode(store, man, req, network, draft, keyOutcome, fault) ==
    LET h == "createNode"
        validKey == IsKeyValid(network, draft.accesskey)
        d == PendingDecision(validKey, man[network], draft.ispending)
        keyLog == TrafficKeyFault(keyOutcome, draft.mine)
        node == NewNode(IdSeq[req], AddrSeq[req], network, draft.accesskey, d.ispending, draft.isserver)
    IN
    IF fault = "NetworkExists" THEN Result(store, <<>>, h, "", "internal", "", FALSE, <<>>)
    ELSE IF ~NetworkExists(network) THEN Result(store, <<>>, h, "", "notfound", "", FALSE, <<>>)
    ELSE IF fault \in {"Decode", "GetNetworkByNode", "GetNetworkSettings"}
         THEN Result(store, <<>>, h, "", "internal", "", FALSE, <<>>)
    ELSE IF d.reject
         THEN Result(store, <<>>, h, "", "unauthorized", "", validKey, <<"IsKeyValid">>)
    ELSE IF keyLog # ""
         THEN Result(store, <<>>, h, "", "internal", keyLog, validKey, <<"IsKeyValid">>)
    ELSE IF fault = "CreateNode"
         THEN Result(store, <<>>, h, "", "internal", "", validKey, <<"IsKeyValid">>)
    ELSE IF fault = "GetPeerUpdate"
         THEN Result(Put(store, node.id, node), <<>>, h, node.id, "internal", "", validKey, <<"IsKeyValid", "CreateNode">>)
    ELSE Result(Put(store, node.id, node), << Task(req, h, "runForceServerUpdate", node, FALSE) >>, h, node.id, "ok", "created new node", validKey, <<"IsKeyValid", "CreateNode", "respond", "go runForceServerUpdate">>)

\* logic.UncordonNode: the stored record with the pending flag cleared
Uncordoned(node) == [node EXCEPT !.ispending = "no"]

\* lines 509-523.  fault: logic.UncordonNode fails although the node is there.
uncordonNode(store, req, nodeid, fault) ==
    LET h == "uncordonNode" IN
    IF ~Exists(store, nodeid) \/ fault
    THEN Result(store, <<>>, h, nodeid, "internal", "", FALSE, <<>>)
    ELSE LET node == Uncordoned(store[nodeid])
         IN Result(Put(store, nodeid, node), << Task(req, h, "runUpdates", node, FALSE) >>, h, nodeid, "ok", "uncordoned node", FALSE, <<"UncordonNode", "respond", "go runUpdates">>)

\* line 697 left out
MarkDeleteForgotten(node) == node
\* line 697
MarkDelete(node) == [node EXCEPT !.action = NODE_DELETE]

\* lines 680-709.  fault: "GetNodeByID" or "DeleteNodeByID" fails, or "none".
deleteNode(store, req, nodeid, fault) ==
    LET h == "deleteNode" IN
    IF ~Exists(store, nodeid) \/ fault = "GetNodeByID"
    THEN Result(store, <<>>, h, nodeid, "badrequest", "", FALSE, <<>>)
    ELSE IF isServer(store[nodeid])
    THEN Result(store, <<>>, h, nodeid, "badrequest", "", FALSE, <<>>)
    ELSE LET node == MarkDelete(store[nodeid]) IN
         IF fault = "DeleteNodeByID"
         THEN Result(store, <<>>, h, nodeid, "internal", "", FALSE, <<"Action=delete">>)
         ELSE Result(Remove(store, nodeid), << Task(req, h, "runUpdates", node, FALSE), Task(req, h, "runForceServerUpdate", node, FALSE) >>, h, nodeid, "ok", "Deleted node", FALSE, <<"Action=delete", "DeleteNodeByID", "respond", "go runUpdates", "go runForceServerUpdate">>)

\* A handler call takes effect: the store is written, the goroutines are started,
\* the call is recorded.
\* keyOutcome, mine: what the request found for the server's and carried for the
\* node's traffic key ("" for the handlers that read neither).
Commit(r, keyOutcome, mine) ==
    /\ nodes' = r.nodes
    /\ tasks' = tasks \o r.started
    /\ last' = [req |-> nreq + 1, handler |-> r.handler, id |-> r.id, code |-> r.code, log |-> r.log, validKey |-> r.validKey, trace |-> r.trace, keyOutcome |-> keyOutcome, mine |-> mine, body |-> <<>>]
    /\ nreq' = nreq + 1
    /\ UNCHANGED <<auth, manual>>

\* the node IDs a request path can name: those given out so far or about to be
PathIDs == {IdSeq[k] : k \in 1..MaxReq} \cup DOMAIN nodes

CreateNode ==
    /\ nreq < MaxReq /\ nreq < Len(IdSeq)
    /\ \E network \in {"net1", "ghost"}, draft \in Drafts, keyOutcome \in {"err", "nil", "ok"}, fault \in CreateFaults :
            Commit(createNode(nodes, manual, nreq + 1, network, draft, keyOutcome, fault), keyOutcome, draft.mine)
    /\ UNCHANGED <<upd, procs>>

UncordonNode ==
    /\ nreq < MaxReq
    /\ \E nodeid \in PathIDs, fault \in BOOLEAN :
            Commit(uncordonNode(nodes, nreq + 1, nodeid, fault), "", "")
    /\ UNCHANGED <<upd, procs>>

DeleteNode ==
    /\ nreq < MaxReq
    /\ \E nodeid \in PathIDs, fault \in {"none", "GetNodeByID", "DeleteNodeByID"} :
            Commit(deleteNode(nodes, nreq + 1, nodeid, fault), "", "")
    /\ UNCHANGED <<upd, procs>>

----------------------------------------------------------------------------
(* updateNode and the relay-address repair *)

\* updates per behaviour of SpecRelay
MaxUpdates == 1
\* longest relay target list of an initial state
MaxRelayLen == 3

\* the request is answered by net/http's recovery from a panic of the handler
PANIC == "panic"

SeqRemoveAt(seq, i) == [k \in 1..(Len(seq) - 1) |-> IF k < i THEN seq[k] ELSE seq[k + 1]]

\* The loop of lines 773-778 (and of 782-787) from index i on.  The two appends
\* write into the array the range statement iterates over and leave its length
\* unchanged, so the iteration reads the list as rewritten so far.
\* match: the address an entry is compared with; put: the address appended.
RECURSIVE ReplaceLoop(_, _, _, _)
ReplaceLoop(list, i, match, put) ==
    IF i > Len(list) THEN list
    ELSE IF list[i] = match
         THEN ReplaceLoop(Append(SeqRemoveAt(list, i), put), i + 1, match, put)
         ELSE ReplaceLoop(list, i + 1, match, put)

\* lines 771-788: the relay's target list after the repair
RepairedAddrs(relayAddrs, oldnode, newnode) ==
    LET v4 == IF oldnode.address # newnode.address
              THEN ReplaceLoop(relayAddrs, 1, oldnode.address, newnode.address)
              ELSE relayAddrs
    IN IF oldnode.address6 # newnode.address6
       THEN ReplaceLoop(v4, 1, oldnode.address, newnode.address6)
       ELSE v4

\* logic.FindRelay(oldnode): the relays of the node's network whose target list
\* holds one of the node's addresses (the code takes the first it meets)
FindRelay(store, node) ==
    IF node.isrelayed = "no" THEN {}
    ELSE {id \in DOMAIN store :
            /\ store[id].network = node.network
            /\ store[id].isrelay # "no"
            /\ \E k \in 1..Len(store[id].relayaddrs) : store[id].relayaddrs[k] \in {node.address, node.address6}}

\* lines 768-790: the store after updateRelay, relay being what FindRelay returned
updateRelay(store, relay, oldnode, newnode) ==
    Put(store, relay, [store[relay] EXCEPT !.relayaddrs = RepairedAddrs(@, oldnode, newnode)])

\* newNode.Fill(currentNode) in logic.UpdateNode: what the patch leaves empty
\* keeps its stored value
Fill(patch, node) ==
    [node EXCEPT !.address = IF patch.address = "" THEN @ ELSE patch.address,
                 !.address6 = IF patch.address6 = "" THEN @ ELSE patch.address6,
                 !.relayaddrs = IF patch.relayaddrs = <<>> THEN @ ELSE patch.relayaddrs,
                 !.postup = IF patch.postup = "" THEN @ ELSE patch.postup,
                 !.postdown = IF patch.postdown = "" THEN @ ELSE patch.postdown]

\* logic.IfaceDelta(&node, &newNode): a field that affects the interface differs
IfaceDelta(node, patch) ==
    \/ patch.address # node.address
    \/ patch.address6 # node.address6
    \/ patch.postup # node.postup
    \/ patch.postdown # node.postdown

\* the nodes of a network one of whose addresses is in addrs
Fronted(store, network, addrs) == {id \in DOMAIN store : store[id].network = network /\ (\E k \in 1..Len(addrs) : addrs[k] \in {store[id].address, store[id].address6})}
\* logic.SetRelayedNodes(yesOrno, network, addrs): the store with those nodes flagged
SetRelayedNodes(store, yesOrno, network, addrs) == [id \in DOMAIN store |-> IF id \in Fronted(store, network, addrs) THEN [store[id] EXCEPT !.isrelayed = yesOrno] ELSE store[id]]
\* logic.UpdateRelay(network, oldAddrs, newAddrs): the store afterwards
UpdateRelay(store, network, oldAddrs, newAddrs) == SetRelayedNodes(SetRelayedNodes(store, "no", network, oldAddrs), "yes", network, newAddrs)

\* the order in which the store hands out its records
StoreOrder == <<"r", "x", "y">>
RECURSIVE InOrder(_, _)
InOrder(ids, order) ==
    IF order = <<>> THEN <<>>
    ELSE (IF Head(order) \in ids THEN <<Head(order)>> ELSE <<>>) \o InOrder(ids, Tail(order))
Reverse(seq) == [k \in 1..Len(seq) |-> seq[Len(seq) + 1 - k]]

\* lines 627-637: the patch carries a relay target list that differs from the stored one
RelayUpdate(node, patch) == node.isrelay = "yes" /\ Len(patch.relayaddrs) > 0 /\ patch.relayaddrs # node.relayaddrs
\* lines 638-641: the node is relayed and the patch carries another address
RelayedUpdate(node, patch) == node.isrelayed = "yes" /\ (node.address # patch.address \/ node.address6 # patch.address6)

\* lines 643-646 left out
GateScriptsIgnored(node, patch, rce) == patch
\* lines 643-646: without remote command execution the patch keeps the stored scripts
GateScripts(node, patch, rce) == IF rce THEN patch ELSE [patch EXCEPT !.postup = node.postup, !.postdown = node.postdown]

\* lines 650-665: the store once logic.UpdateNode has persisted the patched node
\* and, on a relay delta, logic.UpdateRelay has re-flagged the fronted nodes
Persisted(store, nodeid, patch, rce) ==
    LET node == store[nodeid]
        newNode == Fill(GateScripts(node, patch, rce), node)
        store1 == Put(store, nodeid, newNode)
    IN IF RelayUpdate(node, patch)
       THEN UpdateRelay(store1, node.network, node.relayaddrs, newNode.relayaddrs)
       ELSE store1

\* lines 606-678.  patch: the decoded body; rce: servercfg.GetRce(); dns:
\* servercfg.IsDNSMode(); fault: "GetNodeByID", "Decode" or "UpdateNode" fails, or
\* "none"; rev: the store hands out its records in reverse order; relay: the
\* node FindRelay returns ("" for nil, on which line 773, 782 or 789 panics).
updateNode(store, req, nodeid, patch, rce, dns, fault, rev, relay) ==
    LET h == "updateNode" IN
    IF ~Exists(store, nodeid) \/ fault = "GetNodeByID"
    THEN Result(store, <<>>, h, nodeid, "internal", "", FALSE, <<>>)
    ELSE IF fault = "Decode"
    THEN Result(store, <<>>, h, nodeid, "badrequest", "", FALSE, <<>>)
    ELSE
      LET node == store[nodeid]
          relayupdate == RelayUpdate(node, patch)
          relayedUpdate == RelayedUpdate(node, patch)
          gated == GateScripts(node, patch, rce)
          ifaceDelta == IfaceDelta(node, gated)
          newNode == Fill(gated, node)
          store2 == Persisted(store, nodeid, patch, rce)
          fronted == InOrder(Fronted(store2, node.network, newNode.relayaddrs), IF rev THEN Reverse(StoreOrder) ELSE StoreOrder)
          started1 == IF relayupdate THEN [k \in 1..Len(fronted) |-> [Task(req, h, "runUpdates", store2[fronted[k]], FALSE) EXCEPT !.later = [m \in 1..(Len(fronted) - k) |-> store2[fronted[k + m]]]]] ELSE <<>>
          trace1 == <<"UpdateNode">> \o (IF relayupdate THEN <<"UpdateRelay">> \o [k \in 1..Len(fronted) |-> "go runUpdates"] ELSE <<>>)
      IN
      IF fault = "UpdateNode"
      THEN Result(store, <<>>, h, nodeid, "internal", "", FALSE, <<>>)
      ELSE IF relayedUpdate /\ relay = ""
      THEN Result(store2, started1, h, nodeid, PANIC, "", FALSE, trace1)
      ELSE
        LET store3 == IF relayedUpdate THEN updateRelay(store2, relay, node, newNode) ELSE store2
            trace3 == trace1 \o (IF relayedUpdate THEN <<"updateRelay">> ELSE <<>>) \o (IF dns THEN <<"SetDNS">> ELSE <<>>)
        IN Result(store3, started1 \o << Task(req, h, "runUpdates", newNode, ifaceDelta) >>, h, nodeid, "ok", "updated node", FALSE, trace3 \o <<"respond", "go runUpdates">>)

\* What an updateNode call read: n, the number of the call among the updates; the
\* decoded body; servercfg.GetRce(); servercfg.IsDNSMode(); the collaborator call
\* that failed; the node GetNodeByID returned (<<>> when there is none).
Read(n, patch, rce, dns, fault, before) == [n |-> n, patch |-> patch, rce |-> rce, dns |-> dns, fault |-> fault, before |-> before]
NoPatch == [address |-> "", address6 |-> "", relayaddrs |-> <<>>, postup |-> "", postdown |-> ""]
NoRead == Read(0, NoPatch, FALSE, FALSE, "none", <<>>)

\* the bodies an update request can carry: each address omitted, kept or changed,
\* a relay target list (of one node, of two) for a relay, a script
Patches == [address : {"", "a1", "a9"}, address6 : {"", "f1", "f9"}, relayaddrs : {<<>>, <<"a2">>, <<"a2", "a1">>}, postup : {"", "up"}, postdown : {""}]
\* (a body with a list of two targets carries nothing else)
PatchesFor(node) == {p \in Patches : (node.isrelay # "yes" => p.relayaddrs = <<>>) /\ (Len(p.relayaddrs) > 1 => p = [NoPatch EXCEPT !.relayaddrs = p.relayaddrs])}

\* An update that gets past the load, the decode and the persist.  The inputs that
\* the call does not read (rce without a script in the patch, the order of the
\* store without a relay delta) are not varied.
UpdateNode ==
    /\ upd.n < MaxUpdates
    /\ \E nodeid \in DOMAIN nodes, dns \in BOOLEAN :
       \E patch \in PatchesFor(nodes[nodeid]) :
       \E rce \in (IF patch.postup = "" THEN {FALSE} ELSE BOOLEAN), rev \in (IF RelayUpdate(nodes[nodeid], patch) THEN BOOLEAN ELSE {FALSE}) :
         LET found == FindRelay(Persisted(nodes, nodeid, patch, rce), nodes[nodeid])
         IN \E relay \in (IF found = {} THEN {""} ELSE found) :
               /\ Commit(updateNode(nodes, nreq + 1, nodeid, patch, rce, dns, "none", rev, relay), "", "")
               /\ upd' = Read(upd.n + 1, patch, rce, dns, "none", <<nodes[nodeid]>>)
               /\ UNCHANGED procs

\* An update whose node cannot be loaded, whose body cannot be decoded, or whose
\* patched node cannot be persisted.
UpdateNodeRefused ==
    /\ upd.n < MaxUpdates
    /\ \E nodeid \in DOMAIN nodes \cup {"ghost"}, fault \in {"GetNodeByID", "Decode", "UpdateNode"}, patch \in {[address |-> "a9", address6 |-> "", relayaddrs |-> <<>>, postup |-> "", postdown |-> ""]} :
         /\ Commit(updateNode(nodes, nreq + 1, nodeid, patch, TRUE, FALSE, fault, FALSE, ""), "", "")
         /\ upd' = Read(upd.n + 1, patch, TRUE, FALSE, fault, IF Exists(nodes, nodeid) THEN <<nodes[nodeid]>> ELSE <<>>)
         /\ UNCHANGED procs

----------------------------------------------------------------------------
(* Specification of the authorization middleware *)

NoNodes == [id \in {} |-> 0]
NoProcs == <<>>
NoLast == [req |-> 0, handler |-> "", id |-> "", code |-> "", log |-> "", validKey |-> FALSE, trace |-> <<>>, keyOutcome |-> "", mine |-> "", body |-> <<>>]

InitAuth ==
    /\ auth = AuthInit
    /\ nodes = NoNodes
    /\ manual \in [Networks -> {"yes", "no"}]
    /\ tasks = <<>>
    /\ last = NoLast
    /\ nreq = 0
    /\ upd = NoRead
    /\ procs = NoProcs

NextAuth == AuthorizeRequest

SpecAuth == InitAuth /\ [][NextAuth]_vars

----------------------------------------------------------------------------
(* Specification of the lifecycle handlers and their propagation tasks *)

Init ==
    /\ auth = AuthInit
    /\ nodes = NoNodes
    /\ manual \in [Networks -> {"yes", "no"}]
    /\ tasks = <<>>
    /\ last = NoLast
    /\ nreq = 0
    /\ upd = NoRead
    /\ procs = NoProcs

Next ==
    \/ CreateNode
    \/ UncordonNode
    \/ DeleteNode
    \/ RunUpdatesTask
    \/ RunForceTask

Spec == Init /\ [][Next]_vars

----------------------------------------------------------------------------
(* Specification of updateNode over a relay and the nodes it fronts *)

\* the addresses a relay target list of an initial state is made of
RelayAddrPool == {"a1", "a2", "f1"}
\* the target lists a relay is created with: no address twice
RelayLists == UNION {{l \in [1..n -> RelayAddrPool] : \A i, j \in 1..n : l[i] = l[j] => i = j} : n \in 1..MaxRelayLen}

RelayNode(id, addr, addr6, isrelay, relayaddrs) == [id |-> id, network |-> "net1", accesskey |-> "k1", address |-> addr, address6 |-> addr6, ispending |-> "no", isserver |-> "no", isrelay |-> isrelay, isrelayed |-> "no", relayaddrs |-> relayaddrs, action |-> "", postup |-> "", postdown |-> ""]

\* relay r with target list l, and nodes x and y, flagged relayed as creating the
\* relay flags them
InitRelay ==
    /\ auth = AuthInit
    /\ \E l \in RelayLists, x6 \in {"", "f1"} :
          nodes = SetRelayedNodes([id \in {"r", "x", "y"} |->
                                     CASE id = "r" -> RelayNode("r", "a0", "", "yes", l)
                                       [] id = "x" -> RelayNode("x", "a1", x6, "no", <<>>)
                                       [] id = "y" -> RelayNode("y", "a2", "", "no", <<>>)],
                                  "yes", "net1", l)
    /\ manual \in [Networks -> {"yes"}]
    /\ tasks = <<>>
    /\ last = NoLast
    /\ nreq = 0
    /\ upd = NoRead
    /\ procs = NoProcs

NextRelay ==
    \/ UpdateNode
    \/ UpdateNodeRefused
    \/ RunUpdatesTask

SpecRelay == InitRelay /\ [][NextRelay]_vars

----------------------------------------------------------------------------
(* Specification of updateNode over one node and of the propagation it starts *)

\* one stored node, server or not, with or without a script of its own
InitUpdate ==
    /\ auth = AuthInit
    /\ \E isserver \in {"no", "yes"}, postup \in {"", "old"} :
          nodes = [id \in {"s"} |-> [RelayNode("s", "a1", "", "no", <<>>) EXCEPT !.isserver = isserver, !.postup = postup]]
    /\ manual \in [Networks -> {"yes"}]
    /\ tasks = <<>>
    /\ last = NoLast
    /\ nreq = 0
    /\ upd = NoRead
    /\ procs = NoProcs

NextUpdate ==
    \/ UpdateNode
    \/ UpdateNodeRefused
    \/ RunUpdatesTask

SpecUpdate == InitUpdate /\ [][NextUpdate]_vars

----------------------------------------------------------------------------
(* Specification of deleteNode and updateNode over a relay and the nodes it fronts *)

\* the goroutines the calls start are left where they start: they write nothing
\* the handlers read
NextTopology ==
    \/ DeleteNode
    \/ UpdateNode
    \/ UpdateNodeRefused

SpecTopology == InitRelay /\ [][NextTopology]_vars

----------------------------------------------------------------------------
(* Specification of two updateNode calls served in parallel *)

\* An updateNode call in progress: where it is, the node ID of its path, its
\* decoded body, and its local variables node, newNode and (in updateRelay) relay,
\* each <<>> until the call has set it.
Proc(id, patch) == [pc |-> "start", id |-> id, patch |-> patch, node |-> <<>>, newNode |-> <<>>, relay |-> <<>>]

\* line 613: the call loads its node
RaceLoad(p) ==
    /\ procs[p].pc = "start"
    /\ procs' = [procs EXCEPT ![p] = IF Exists(nodes, procs[p].id)
                                     THEN [@ EXCEPT !.pc = "loaded", !.node = <<nodes[procs[p].id]>>]
                                     ELSE [@ EXCEPT !.pc = "done"]]
    /\ UNCHANGED <<auth, nodes, manual, tasks, last, nreq, upd>>

\* lines 619-654: the deltas are computed from the loaded node and the patched node
\* is written to the store
RacePersist(p) ==
    /\ procs[p].pc = "loaded"
    /\ LET node == procs[p].node[1]
           newNode == Fill(GateScripts(node, procs[p].patch, TRUE), node)
       IN /\ nodes' = Put(nodes, node.id, newNode)
          /\ procs' = [procs EXCEPT ![p] = [@ EXCEPT !.pc = IF RelayedUpdate(node, procs[p].patch) THEN "persisted" ELSE "repaired", !.newNode = <<newNode>>]]
    /\ UNCHANGED <<auth, manual, tasks, last, nreq, upd>>

\* line 769: updateRelay reads the relay of the node from the store
RaceFindRelay(p) ==
    /\ procs[p].pc = "persisted"
    /\ LET found == FindRelay(nodes, procs[p].node[1])
       IN IF found = {}
          THEN procs' = [procs EXCEPT ![p] = [@ EXCEPT !.pc = PANIC]]
          ELSE \E r \in found : procs' = [procs EXCEPT ![p] = [@ EXCEPT !.pc = "found", !.relay = <<nodes[r]>>]]
    /\ UNCHANGED <<auth, nodes, manual, tasks, last, nreq, upd>>

\* lines 770-789: the list of the relay record that was read is repaired and the
\* record is written back
RaceRepair(p) ==
    /\ procs[p].pc = "found"
    /\ LET relay == procs[p].relay[1]
       IN nodes' = Put(nodes, relay.id, [relay EXCEPT !.relayaddrs = RepairedAddrs(@, procs[p].node[1], procs[p].newNode[1])])
    /\ procs' = [procs EXCEPT ![p] = [@ EXCEPT !.pc = "repaired"]]
    /\ UNCHANGED <<auth, manual, tasks, last, nreq, upd>>

\* lines 673-677: the response is written and the propagation is started
RaceRespond(p) ==
    /\ procs[p].pc = "repaired"
    /\ LET node == procs[p].node[1]
           r == Result(nodes, << Task(nreq + 1, "updateNode", "runUpdates", procs[p].newNode[1], IfaceDelta(node, procs[p].patch)) >>, "updateNode", node.id, "ok", "updated node", FALSE, <<"UpdateNode", "respond", "go runUpdates">>)
       IN Commit(r, "", "")
    /\ procs' = [procs EXCEPT ![p] = [@ EXCEPT !.pc = "done"]]
    /\ UNCHANGED upd

\* the relay with both x and y among its targets, and two calls that have arrived:
\* one for x, one for y
InitRace ==
    /\ auth = AuthInit
    /\ \E l \in {q \in RelayLists : {"a1", "a2"} \subseteq {q[k] : k \in 1..Len(q)}}, x6 \in {"", "f1"} :
          nodes = SetRelayedNodes([id \in {"r", "x", "y"} |->
                                     CASE id = "r" -> RelayNode("r", "a0", "", "yes", l)
                                       [] id = "x" -> RelayNode("x", "a1", x6, "no", <<>>)
                                       [] id = "y" -> RelayNode("y", "a2", "", "no", <<>>)],
                                  "yes", "net1", l)
    /\ manual \in [Networks -> {"yes"}]
    /\ tasks = <<>>
    /\ last = NoLast
    /\ nreq = 0
    /\ upd = NoRead
    /\ procs = << Proc("x", [NoPatch EXCEPT !.address = "a9"]), Proc("y", [NoPatch EXCEPT !.address = "a8"]) >>

NextRace ==
    \/ \E p \in 1..Len(procs) : RaceLoad(p)
    \/ \E p \in 1..Len(procs) : RacePersist(p)
    \/ \E p \in 1..Len(procs) : RaceFindRelay(p)
    \/ \E p \in 1..Len(procs) : RaceRepair(p)
    \/ \E p \in 1..Len(procs) : RaceRespond(p)
    \/ RunUpdatesTask

SpecRace == InitRace /\ [][NextRace]_vars

----------------------------------------------------------------------------
(* Specification of updateRelay applied again with the same old and new node *)

\* applications of updateRelay per behaviour
MaxApply == 2

\* the target lists a relay can hold: any list the body of an update of the relay
\* carried (lines 627-637 compare it with the stored list, nothing validates it)
AnyRelayLists == UNION {[1..n -> RelayAddrPool] : n \in 1..MaxRelayLen}

\* a relay, the node x it fronts, and the body of an update of x that carries
\* another IPv4 address
InitRepair ==
    /\ auth = AuthInit
    /\ \E l \in AnyRelayLists, x6 \in {"", "f1"} :
          nodes = SetRelayedNodes([id \in {"r", "x"} |->
                                     CASE id = "r" -> RelayNode("r", "a0", "", "yes", l)
                                       [] id = "x" -> RelayNode("x", "a1", x6, "no", <<>>)],
                                  "yes", "net1", l)
    /\ manual \in [Networks -> {"yes"}]
    /\ tasks = <<>>
    /\ last = NoLast
    /\ nreq = 0
    /\ upd = Read(0, [NoPatch EXCEPT !.address = "a9"], FALSE, FALSE, "none", <<>>)
    /\ procs = NoProcs

\* lines 768-790: updateRelay(&node, &newNode) for node x as first loaded and as
\* patched by upd.patch; on a nil relay the call panics and writes nothing
ApplyUpdateRelay ==
    /\ upd.n < MaxApply
    /\ LET oldnode == IF upd.before = <<>> THEN nodes["x"] ELSE upd.before[1]
           newnode == Fill(upd.patch, oldnode)
           found == FindRelay(nodes, oldnode)
       IN /\ RelayedUpdate(oldnode, upd.patch)
          /\ IF found = {}
             THEN /\ nodes' = nodes
                  /\ last' = [last EXCEPT !.req = @ + 1, !.handler = "updateRelay", !.code = PANIC]
             ELSE \E relay \in found :
                  /\ nodes' = updateRelay(nodes, relay, oldnode, newnode)
                  /\ last' = [last EXCEPT !.req = @ + 1, !.handler = "updateRelay", !.code = "ok", !.id = relay]
          /\ upd' = [upd EXCEPT !.n = @ + 1, !.before = <<oldnode>>]
    /\ UNCHANGED <<auth, manual, tasks, nreq, procs>>

NextRepair == ApplyUpdateRelay

SpecRepair == InitRepair /\ [][NextRepair]_vars

----------------------------------------------------------------------------
(* getAllNodes behind authorize *)

\* the networks of the store that is listed, in the order a user's Networks
\* slice names them
ListNetworks == <<"net1", "net2">>
\* the node IDs of the store that is listed, in the order the store returns them,
\* and the network of each
ListOrder == <<"n1", "n2", "n3">>
ListNetworkOf == [n1 |-> "net1", n2 |-> "net2", n3 |-> "net2"]

\* the user records logic.GetUser finds: Networks and IsAdmin
ListUsers == [alice |-> [networks |-> <<"net1">>, isadmin |-> FALSE], bob |-> [networks |-> <<>>, isadmin |-> FALSE], carol |-> [networks |-> <<"net1", "net2">>, isadmin |-> FALSE], root |-> [networks |-> <<>>, isadmin |-> TRUE]]

\* logic.GetUser(username): the record, or an error and the zero User
GetUser(username, getUserErr) == IF getUserErr \/ username \notin DOMAIN ListUsers THEN [err |-> TRUE, networks |-> <<>>, isadmin |-> FALSE] ELSE [err |-> FALSE, networks |-> ListUsers[username].networks, isadmin |-> ListUsers[username].isadmin]

\* logic.GetAllNodes()
GetAllNodes(store) == SelectSeq(ListOrder, LAMBDA id : id \in DOMAIN store)
\* logic.GetNetworkNodes(networkName)
GetNetworkNodes(store, network) == SelectSeq(ListOrder, LAMBDA id : id \in DOMAIN store /\ store[id].network = network)

RECURSIVE UsersNodesLoop(_, _, _, _)
\* lines 346-352: the loop over user.Networks; failing: the networks whose lookup
\* fails; acc: the nodes appended so far
UsersNodesLoop(networks, store, failing, acc) ==
    IF networks = <<>> THEN acc
    ELSE IF Head(networks) \in failing
         THEN UsersNodesLoop(Tail(networks), store, failing, acc)
         ELSE UsersNodesLoop(Tail(networks), store, failing, acc \o GetNetworkNodes(store, Head(networks)))

\* lines 343-354 with a return in place of the continue
getUsersNodesFailFast(user, store, failing) ==
    [err |-> \E k \in 1..Len(user.networks) : user.networks[k] \in failing,
     nodes |-> UsersNodesLoop(user.networks, store, failing, <<>>)]
\* lines 343-354: the err that is returned is the outer one, never assigned
getUsersNodes(user, store, failing) ==
    [err |-> FALSE,
     nodes |-> UsersNodesLoop(user.networks, store, failing, <<>>)]

\* the response of getAllNodes: its code and the node IDs it encodes
Listed(store, code, log, body) == Result(store, <<>>, "getAllNodes", "", code, log, FALSE, <<>>) @@ [body |-> body]

\* lines 316-341.  hdrs: the request headers as authorize passed them on;
\* allErr: logic.GetAllNodes fails.
getAllNodes(store, hdrs, getUserErr, allErr, failing) ==
    LET user == GetUser(hdrs.user, getUserErr) IN
    IF user.err /\ hdrs.ismasterkey # "yes" THEN Listed(store, "internal", "", <<>>)
    ELSE IF user.isadmin \/ hdrs.ismasterkey = "yes"
         THEN IF allErr THEN Listed(store, "internal", "", <<>>)
              ELSE Listed(store, "ok", "fetched all nodes they have access to", GetAllNodes(store))
         ELSE LET got == getUsersNodes(user, store, failing) IN
              IF got.err THEN Listed(store, "internal", "", <<>>)
              ELSE Listed(store, "ok", "fetched all nodes they have access to", got.nodes)

\* Outcomes of logic.VerifyUserToken for the callers of the listing route: an
\* error, a token without a username, or the claims of a user record.
ListUserResults == {[err |-> TRUE, username |-> "", networks |-> {}, isadmin |-> FALSE], [err |-> FALSE, username |-> "", networks |-> {}, isadmin |-> FALSE]} \cup {[err |-> FALSE, username |-> u, networks |-> {ListUsers[u].networks[k] : k \in 1..Len(ListUsers[u].networks)}, isadmin |-> ListUsers[u].isadmin] : u \in DOMAIN ListUsers}

ListCredentials == {c \in [bearer : BOOLEAN, nodeErr : {TRUE}, nodeID : {""}, user : ListUserResults] : ~c.bearer => c.user.err}

\* line 22: GET /api/nodes is authorize(false, false, "user", getAllNodes); the
\* route declares no path variable.  What the request through both gives:
\* out, what authorize did; r, the response of getAllNodes.
ListRequest(store, cred, clientHdrs, getUserErr, allErr, failing) ==
    LET params == [network |-> "", nodeid |-> ""]
        out    == authorize(FALSE, FALSE, "user", params, clientHdrs, cred, NetworkExists(""), TRUE, "")
    IN [out |-> out,
        r   |-> IF out.served = 1 THEN getAllNodes(store, out.hdrs, getUserErr, allErr, failing)
                ELSE [Listed(store, IF out.rejections = <<>> THEN "" ELSE out.rejections[1], "", <<>>) EXCEPT !.handler = ""]]

\* One GET /api/nodes.  The request's inputs are kept next to what authorize did.
ListNodes ==
    /\ nreq < MaxReq
    /\ \E cred \in ListCredentials, clientMaster \in {"", "yes"}, getUserErr \in BOOLEAN, allErr \in BOOLEAN, failing \in SUBSET {"net1", "net2"} :
        LET clientHdrs == [user |-> "", ismasterkey |-> clientMaster]
            q == ListRequest(nodes, cred, clientHdrs, getUserErr, allErr, failing)
        IN /\ auth' = [nodesAllowed |-> FALSE, networkCheck |-> FALSE, authNetwork |-> "user", params |-> [network |-> "", nodeid |-> ""], cred |-> cred, getNodeErr |-> TRUE, out |-> q.out, clientHdrs |-> clientHdrs, getUserErr |-> getUserErr, allErr |-> allErr, failing |-> failing]
           /\ last' = [req |-> nreq + 1, handler |-> q.r.handler, id |-> "", code |-> q.r.code, log |-> q.r.log, validKey |-> FALSE, trace |-> <<>>, keyOutcome |-> "", mine |-> "", body |-> q.r.body]
           /\ nreq' = nreq + 1
    /\ UNCHANGED <<nodes, manual, tasks, upd, procs>>

\* a store with nodes in two networks: any of n1 (net1), n2, n3 (net2) registered
InitList ==
    /\ auth = AuthInit
    /\ \E ids \in SUBSET {"n1", "n2", "n3"} :
          nodes = [id \in ids |-> NewNode(id, "a1", ListNetworkOf[id], "k1", "no", "no")]
    /\ manual \in [Networks -> {"yes", "no"}]
    /\ tasks = <<>>
    /\ last = NoLast
    /\ nreq = 0
    /\ upd = NoRead
    /\ procs = NoProcs

NextList == ListNodes

SpecList == InitList /\ [][NextList]_vars

----------------------------------------------------------------------------
(* createNode behind nodeauth *)

\* What logic.GetNetworks() returns, as nodeauth reads it: the access keys of every
\* network of the server.  Next to the networks a request path of the model names
\* there is one more network, net2, with a key of its own.
RegistryKeys == [n \in Networks \cup {"net2"} |-> IF n \in Networks THEN AccessKeys[n] ELSE {"k2"}]

\* the second word of the Authorization header, "" when the header has fewer than
\* two words
Tokens == {"", "k1", "k2", "bad"}

\* lines 142-149: the search for the token in the keys of all the networks
KeyFound(registry, token) == \E n \in DOMAIN registry : token \in registry[n]

\* lines 118-160.  networksErr: logic.GetNetworks fails.
nodeauth(hdrs, token, networksErr, registry) ==
    LET out == NoOutcome(hdrs) IN
    IF token = "" THEN Reject(out, "unauthorized")
    ELSE IF networksErr THEN Reject(out, "notfound")
    ELSE IF ~KeyFound(registry, token) THEN Reject(out, "unauthorized")
    ELSE Serve(out)

\* the registration bodies of the requests through nodeauth
RegisterDrafts == {d \in Drafts : d.isserver = "no" /\ d.mine = "pub"}

\* line 34: POST /api/nodes/{network} is nodeauth(createNode).  One such request:
\* createNode runs when nodeauth serves it.
RegisterNode ==
    /\ nreq < MaxReq /\ nreq < Len(IdSeq)
    /\ \E token \in Tokens, networksErr \in BOOLEAN, network \in {"net1", "ghost"}, draft \in RegisterDrafts, fault \in {"none", "CreateNode"} :
        LET out == nodeauth([user |-> "", ismasterkey |-> ""], token, networksErr, RegistryKeys)
            r   == createNode(nodes, manual, nreq + 1, network, draft, "ok", fault)
        IN /\ auth' = [nodesAllowed |-> FALSE, networkCheck |-> FALSE, authNetwork |-> "", params |-> [network |-> network, nodeid |-> ""], cred |-> AuthInit.cred, getNodeErr |-> TRUE, out |-> out, token |-> token]
           /\ IF out.served = 1
              THEN /\ nodes' = r.nodes
                   /\ tasks' = tasks \o r.started
                   /\ last' = [req |-> nreq + 1, handler |-> r.handler, id |-> r.id, code |-> r.code, log |-> r.log, validKey |-> r.validKey, trace |-> r.trace, keyOutcome |-> "ok", mine |-> draft.mine, body |-> <<>>]
              ELSE /\ UNCHANGED <<nodes, tasks>>
                   /\ last' = [NoLast EXCEPT !.req = nreq + 1, !.code = out.rejections[1]]
           /\ nreq' = nreq + 1
    /\ UNCHANGED <<manual, upd, procs>>

NextRegister ==
    \/ RegisterNode
    \/ RunForceTask

SpecRegister == Init /\ [][NextRegister]_vars

----------------------------------------------------------------------------
(* Claims about authorize *)

Served == auth.out.served > 0
Rejected(code) == auth.out.rejections = <<code>>
\* the request got past line 180
PassedNetworkGate == ~(auth.networkCheck /\ ~NetworkExists(auth.params.network))
\* logic.VerifyUserToken answers with the admin flag set (master key or admin user)
IsMasterCred == auth.cred.bearer /\ ~auth.cred.user.err /\ auth.cred.user.isadmin
\* the credential is a node token only
IsNodeOnlyCred == auth.cred.bearer /\ ~auth.cred.nodeErr /\ auth.cred.user.err

\* C1: a request whose credential verifies as master/admin reaches the handler
\* (exactly once) for every scope and either value of nodesAllowed whenever the
\* network-existence precondition holds; when networkCheck is set and the path
\* network does not exist it is rejected with not-found and the handler is not run.
C1_MasterAlwaysAuthorized ==
    IsMasterCred =>
        /\ PassedNetworkGate => (auth.out.served = 1 /\ auth.out.rejections = <<>>)
        /\ ~PassedNetworkGate => (Rejected("notfound") /\ auth.out.served = 0)

C1_Witness ==
    /\ IsMasterCred /\ auth.authNetwork = "other" /\ ~auth.nodesAllowed
    /\ auth.networkCheck /\ PassedNetworkGate /\ auth.out.served = 1

\* C2: the wrapped handler is invoked at most once per request, and never on a
\* request for which a rejection has been written.
C2_HandlerAtMostOnceNeverAfterReject ==
    /\ auth.out.served <= 1
    /\ Len(auth.out.rejections) <= 1
    /\ auth.out.rejections # <<>> => auth.out.served = 0
    /\ auth.out.rejections # <<>> => auth.out.rejections[1] \in {"notfound", "unauthorized"}

C2_Witness ==
    /\ Rejected("unauthorized") /\ auth.cred.bearer /\ ~auth.cred.user.err
    /\ auth.authNetwork = "nodes" /\ auth.out.served = 0

\* the caller is a network admin in the sense of lines 226-236
IsNetAdminCaller ==
    /\ ~auth.cred.user.err
    /\ \/ auth.cred.user.isadmin
       \/ auth.params.network \in auth.cred.user.networks
\* the caller is a node identity whose ID is the {nodeid} of the path
IsPathNode == ~auth.cred.nodeErr /\ auth.cred.nodeID = auth.params.nodeid

\* C3 (as claimed): on a route of scope "node" a non-master request reaches the
\* handler only if the caller is a network admin or a node whose ID equals the
\* node ID of the request path.
C3_NodeScopeOnlySelfOrAdmin ==
    (auth.authNetwork = "node" /\ ~IsMasterCred /\ Served)
        => (IsNetAdminCaller \/ IsPathNode)

----------------------------------------------------------------------------
(* Claims about the lifecycle handlers *)

Range(seq) == {seq[i] : i \in 1..Len(seq)}
\* the position of an effect in the ordered effects of a handler call (0: not there)
Pos(seq, e) == IF e \in Range(seq) THEN CHOOSE i \in 1..Len(seq) : seq[i] = e ELSE 0
\* the goroutines a handler call started
TasksOf(req, kind) == {i \in 1..Len(tasks) : tasks[i].req = req /\ tasks[i].kind = kind}
\* how many of the calls are publications addressed to node id
Publications(calls, id) == Cardinality({i \in 1..Len(calls) : calls[i].op \in {"NodeUpdate", "PublishPeerUpdate"} /\ calls[i].to = id})

\* the step is a call of handler h
IsCall(h) == last'.req # last.req /\ last'.handler = h

\* C5 (as claimed): Register on an existing network: with a valid access key the
\* created node is non-pending; with an invalid key on a network that allows manual
\* signup the created node is pending; with an invalid key on a network that does
\* not allow manual signup the request fails as unauthorized and no record is created.
C5_RegisterPendingByKey ==
    (last.handler = "createNode" /\ "IsKeyValid" \in Range(last.trace)) =>
        /\ (last.validKey /\ last.code = "ok") => nodes[last.id].ispending # "yes"
        /\ (~last.validKey /\ manual["net1"] = "yes" /\ last.code = "ok") => nodes[last.id].ispending = "yes"
        /\ (~last.validKey /\ manual["net1"] = "no") => (last.code = "unauthorized" /\ ~Exists(nodes, IdSeq[last.req]))

\* C6: Register fails, creates no node record and starts no propagation whenever
\* the node's own public traffic key is absent, or the server's is absent or cannot
\* be retrieved.
C6_RegisterNeedsTrafficKeys ==
    [][(IsCall("createNode") /\ (last'.keyOutcome # "ok" \/ last'.mine = ""))
          => (last'.code \notin {"ok", ""} /\ nodes' = nodes /\ tasks' = tasks)]_vars

C6_Witness ==
    /\ last.handler = "createNode" /\ last.log = "error: node traffic key is nil"
    /\ last.keyOutcome = "ok" /\ last.mine = ""
    /\ last.code = "internal" /\ last.validKey /\ ~Exists(nodes, IdSeq[last.req])
    /\ TasksOf(last.req, "runForceServerUpdate") = {}

\* C7: Delete on a node flagged is-server fails with an error response, leaves the
\* store unchanged and starts neither a propagation nor a forced server refresh.
C7_DeleteServerRefused ==
    [][(IsCall("deleteNode") /\ Exists(nodes, last'.id) /\ nodes[last'.id].isserver = "yes")
          => (last'.code \in {"badrequest", "internal"} /\ nodes' = nodes /\ tasks' = tasks)]_vars

C7_Witness ==
    /\ last.handler = "deleteNode" /\ last.code = "badrequest"
    /\ Exists(nodes, last.id) /\ nodes[last.id].isserver = "yes"
    /\ TasksOf(last.req, "runUpdates") = {} /\ TasksOf(last.req, "runForceServerUpdate") = {}

\* C8: a successful Delete of a non-server node sets the node's action to "delete"
\* before the record is removed, and after the removal starts one propagation (a
\* node update carrying the delete action) and one forced server refresh for that
\* node; when the removal fails neither is started.
C8_DeleteMarksThenPropagates ==
    last.handler = "deleteNode" =>
        /\ last.code = "ok" =>
              /\ ~Exists(nodes, last.id)
              /\ 0 < Pos(last.trace, "Action=delete")
              /\ Pos(last.trace, "Action=delete") < Pos(last.trace, "DeleteNodeByID")
              /\ Pos(last.trace, "DeleteNodeByID") < Pos(last.trace, "go runUpdates")
              /\ Pos(last.trace, "DeleteNodeByID") < Pos(last.trace, "go runForceServerUpdate")
              /\ Cardinality(TasksOf(last.req, "runUpdates")) = 1
              /\ Cardinality(TasksOf(last.req, "runForceServerUpdate")) = 1
              /\ \A i \in TasksOf(last.req, "runUpdates") \cup TasksOf(last.req, "runForceServerUpdate") :
                    /\ tasks[i].node.id = last.id
                    /\ tasks[i].node.isserver # "yes"
                    /\ tasks[i].node.action = NODE_DELETE
                    /\ tasks[i].done => tasks[i].calls[1].to = last.id
              /\ \A i \in TasksOf(last.req, "runUpdates") : tasks[i].done => tasks[i].calls[1].op = "NodeUpdate"
        /\ last.code # "ok" =>
              /\ TasksOf(last.req, "runUpdates") = {}
              /\ TasksOf(last.req, "runForceServerUpdate") = {}

C8_Witness ==
    /\ last.handler = "deleteNode" /\ last.code = "ok" /\ ~Exists(nodes, last.id)
    /\ \E i \in TasksOf(last.req, "runUpdates") : tasks[i].done /\ tasks[i].node.action = NODE_DELETE
    /\ \E i \in TasksOf(last.req, "runForceServerUpdate") : tasks[i].done

\* C9: Approve on a node clears its pending flag and results in exactly one
\* publication addressed to that node (the node update of the one propagation it
\* starts); Approve on an absent node fails, starts nothing and publishes nothing.
C9_ApproveClearsPendingPublishesOnce ==
    /\ last.handler = "uncordonNode" =>
          /\ last.code = "ok" =>
                /\ Exists(nodes, last.id) /\ nodes[last.id].ispending = "no"
                /\ Cardinality(TasksOf(last.req, "runUpdates")) = 1
                /\ TasksOf(last.req, "runForceServerUpdate") = {}
          /\ ~Exists(nodes, last.id) =>
                /\ last.code \notin {"ok", ""}
                /\ TasksOf(last.req, "runUpdates") = {}
                /\ TasksOf(last.req, "runForceServerUpdate") = {}
    /\ \A i \in 1..Len(tasks) :
          tasks[i].by = "uncordonNode" =>
              /\ tasks[i].kind = "runUpdates" /\ tasks[i].node.ispending = "no"
              /\ Publications(tasks[i].calls, tasks[i].node.id) = (IF tasks[i].done THEN 1 ELSE 0)
              /\ \A j \in 1..Len(tasks[i].calls) : tasks[i].calls[j].op # "PublishPeerUpdate"

\* a node registered with a bad key on a manual-signup network (so created
\* pending), approved, and the propagation of the approval has run
C9_Witness ==
    /\ last.handler = "uncordonNode" /\ last.code = "ok" /\ manual["net1"] = "yes"
    /\ nodes[last.id].accesskey = "bad" /\ nodes[last.id].ispending = "no"
    /\ \E i \in TasksOf(last.req, "runUpdates") :
          tasks[i].done /\ Publications(tasks[i].calls, last.id) = 1

----------------------------------------------------------------------------
(* Claims about updateNode and the relay-address repair *)

\* how often address a is in a relay target list
Count(list, a) == Cardinality({k \in 1..Len(list) : list[k] = a})
\* address a belongs to no node and is in no relay target list of the store
FreshAddr(store, a) == \A id \in DOMAIN store : a \notin {store[id].address, store[id].address6} /\ Count(store[id].relayaddrs, a) = 0

\* the relay's list after the step has new for old: new once, old gone
Replaced(before, after, old, new) == Count(after, new) = 1 /\ Count(after, old) = 0

\* C10 (as claimed): every Update that changes the tunnel address (IPv4 or IPv6) of
\* a relayed node leaves the owning relay's target list with the node's new address
\* exactly once, without the node's old address, and with every other entry it had.
\* Stated for the updates that favour the claim: the old address is in the relay's
\* list once, and the new address is one no node has and no list holds.
C10_RelayListFollowsAddress ==
    [][(IsCall("updateNode") /\ last'.code = "ok" /\ Exists(nodes, last'.id) /\ nodes[last'.id].isrelayed = "yes")
          => LET old == nodes[last'.id]
                 new == nodes'[last'.id]
             IN \A r \in FindRelay(nodes, old) \ {old.id} :
                  LET before == nodes[r].relayaddrs
                      after == nodes'[r].relayaddrs
                      v4 == old.address # new.address /\ Count(before, old.address) = 1 /\ FreshAddr(nodes, new.address)
                      v6 == old.address6 # new.address6 /\ Count(before, old.address6) = 1 /\ FreshAddr(nodes, new.address6)
                  IN /\ v4 => Replaced(before, after, old.address, new.address)
                     /\ v6 => Replaced(before, after, old.address6, new.address6)
                     /\ (v4 \/ v6) =>
                           \A a \in Range(before) :
                               (a = old.address => ~v4) /\ (a = old.address6 => ~v6) => Count(after, a) = Count(before, a)]_vars

\* the goroutines a handler call started for node id
TasksFor(req, id) == {i \in 1..Len(tasks) : tasks[i].req = req /\ tasks[i].node.id = id}
\* the last call was an updateNode that loaded its node
UpdatedNode == last.handler = "updateNode" /\ upd.before # <<>>

\* C11 (as claimed): after an Update that changes the address of a node relayed by
\* relay R, a propagation (a node update addressed to R) is started for R itself,
\* next to the propagation for the updated node.
C11_RelayIsNotified ==
    [][(IsCall("updateNode") /\ last'.code = "ok" /\ Exists(nodes, last'.id) /\ nodes[last'.id].isrelayed = "yes"
           /\ nodes'[last'.id].address # nodes[last'.id].address)
          => /\ \E i \in 1..Len(tasks') : tasks'[i].req = last'.req /\ tasks'[i].kind = "runUpdates" /\ tasks'[i].node.id = last'.id
             /\ \A r \in FindRelay(nodes, nodes[last'.id]) \ {last'.id} :
                   \E i \in 1..Len(tasks') : tasks'[i].req = last'.req /\ tasks'[i].kind = "runUpdates" /\ tasks'[i].node.id = r]_vars

\* C13: with remote command execution disabled, an Update leaves the persisted
\* node's scripts as they were stored, whatever scripts the patch carries, and the
\* interface delta handed to the propagation is the delta of the addresses alone.
C13_ScriptsKeptWithoutRce ==
    (UpdatedNode /\ last.code = "ok" /\ ~upd.rce) =>
        LET before == upd.before[1] IN
        /\ nodes[last.id].postup = before.postup
        /\ nodes[last.id].postdown = before.postdown
        /\ \A i \in TasksFor(last.req, last.id) :
              tasks[i].ifaceDelta = (upd.patch.address # before.address \/ upd.patch.address6 # before.address6)

\* a patch with another pre-up script and the stored addresses, remote command
\* execution off: the stored script is kept and the propagation carries no delta
C13_Witness ==
    /\ UpdatedNode /\ last.code = "ok" /\ ~upd.rce
    /\ upd.patch.postup = "up" /\ upd.before[1].postup = "old" /\ nodes[last.id].postup = "old"
    /\ upd.patch.address = upd.before[1].address /\ upd.patch.address6 = upd.before[1].address6
    /\ \E i \in TasksFor(last.req, last.id) : ~tasks[i].ifaceDelta

\* C14 (as claimed): every Update whose load, decode and persist succeed starts a
\* propagation for the updated node that carries the interface delta computed
\* before the patch was applied, whichever of the relay, relayed and DNS branches
\* fired; an Update whose load, decode or persist fails repairs no relay and
\* starts no propagation.
C14_UpdateAlwaysPropagates ==
    last.handler = "updateNode" =>
        /\ (upd.before # <<>> /\ upd.fault = "none") =>
              \E i \in TasksFor(last.req, last.id) :
                  /\ tasks[i].kind = "runUpdates" /\ tasks[i].by = "updateNode"
                  /\ tasks[i].ifaceDelta = (\/ upd.patch.address # upd.before[1].address
                                            \/ upd.patch.address6 # upd.before[1].address6
                                            \/ (upd.rce /\ upd.patch.postup # upd.before[1].postup)
                                            \/ (upd.rce /\ upd.patch.postdown # upd.before[1].postdown))
        /\ (upd.before = <<>> \/ upd.fault # "none") =>
              /\ TasksOf(last.req, "runUpdates") = {}
              /\ "updateRelay" \notin Range(last.trace)

\* the addresses of the IPv6 family
V6Addrs == {"f1", "f9"}

\* C18 (as claimed): the repair treats the two address families independently.
\* When only the IPv6 address of a relayed node changes, the relay's list has the
\* new IPv6 address for the old one and keeps the node's IPv4 address; when only
\* the IPv4 address changes, the IPv6 entries of the list are untouched.
C18_RepairPerFamily ==
    [][(IsCall("updateNode") /\ last'.code = "ok" /\ Exists(nodes, last'.id) /\ nodes[last'.id].isrelayed = "yes")
          => LET old == nodes[last'.id]
                 new == nodes'[last'.id]
             IN \A r \in FindRelay(nodes, old) \ {old.id} :
                  LET before == nodes[r].relayaddrs
                      after == nodes'[r].relayaddrs
                  IN /\ (old.address = new.address /\ old.address6 # new.address6 /\ Count(before, old.address6) = 1 /\ FreshAddr(nodes, new.address6))
                          => /\ Count(after, new.address6) = 1
                             /\ Count(after, old.address6) = 0
                             /\ Count(after, old.address) = Count(before, old.address)
                     /\ (old.address # new.address /\ old.address6 = new.address6)
                          => \A a \in V6Addrs : Count(after, a) = Count(before, a)]_vars

\* C20 (as claimed): a handler starts no propagation before it has written the
\* response of its request, the propagations for the nodes a relay fronts included.
C20_RespondBeforePropagation ==
    \A k \in 1..Len(last.trace) :
        last.trace[k] \in {"go runUpdates", "go runForceServerUpdate"} =>
            \E j \in 1..(k - 1) : last.trace[j] = "respond"

----------------------------------------------------------------------------
(* Claims about the propagation tasks *)

HasCall(calls, op, to) == \E j \in 1..Len(calls) : calls[j].op = op /\ calls[j].to = to
\* the goroutine is past its first publication and asks for the server of the network
AsksLocalServer(t) == t.met.clientMode = "on" /\ t.node.isserver = "yes"

\* C15 (as claimed): once runUpdates has attempted the node update, nothing further
\* is done unless the server is in client mode and the node is a server node; in
\* that case the broader peer update is published exactly when interfaceChanged is
\* true and the local server is the leader, and the configuration reload is pushed
\* whatever interfaceChanged, leadership and the outcome of the publications.
C15_ReloadAlwaysPushed ==
    \A i \in 1..Len(tasks) :
        (tasks[i].kind = "runUpdates" /\ tasks[i].done) =>
            LET t == tasks[i] IN
            /\ t.calls[1].op = "NodeUpdate" /\ t.calls[1].to = t.node.id
            /\ ~AsksLocalServer(t) => Len(t.calls) = 1
            /\ AsksLocalServer(t) =>
                  /\ HasCall(t.calls, "PublishPeerUpdate", "localserver") <=> (t.ifaceDelta /\ t.met.leader)
                  /\ t.calls[Len(t.calls)].op = "ServerUpdate"

\* C15 (amended): as C15, the reload being pushed when the lookup of the local
\* server succeeds; when the lookup fails nothing is published or pushed after
\* the node update.
C15_ReloadPushedIfServerFound ==
    \A i \in 1..Len(tasks) :
        (tasks[i].kind = "runUpdates" /\ tasks[i].done) =>
            LET t == tasks[i] IN
            /\ t.calls[1].op = "NodeUpdate" /\ t.calls[1].to = t.node.id
            /\ (~AsksLocalServer(t) \/ t.met.localErr) => Len(t.calls) = 1
            /\ (AsksLocalServer(t) /\ ~t.met.localErr) =>
                  /\ HasCall(t.calls, "PublishPeerUpdate", "localserver") <=> (t.ifaceDelta /\ t.met.leader)
                  /\ t.calls[Len(t.calls)] = Call("ServerUpdate", "localserver", FALSE)
                  /\ Len(t.calls) = (IF t.ifaceDelta /\ t.met.leader THEN 3 ELSE 2)

\* the node update and the peer update both failed and the reload was still pushed
C15_Witness ==
    \E i \in 1..Len(tasks) :
        /\ tasks[i].kind = "runUpdates" /\ tasks[i].done /\ AsksLocalServer(tasks[i])
        /\ tasks[i].ifaceDelta /\ tasks[i].met.leader
        /\ tasks[i].calls = << Call("NodeUpdate", tasks[i].node.id, TRUE), Call("PublishPeerUpdate", "localserver", TRUE), Call("ServerUpdate", "localserver", FALSE) >>

\* C16 (as claimed): runForceServerUpdate always attempts a peer update for the
\* node and always pushes a configuration reload to the leader of the network.
C16_ForceAlwaysReloads ==
    \A i \in 1..Len(tasks) :
        (tasks[i].kind = "runForceServerUpdate" /\ tasks[i].done) =>
            /\ tasks[i].calls[1].op = "PublishPeerUpdate" /\ tasks[i].calls[1].to = tasks[i].node.id
            /\ HasCall(tasks[i].calls, "ServerUpdate", "leader")

\* C16 (amended): runForceServerUpdate always attempts a peer update for the node
\* and, whenever the lookup of the network's leader succeeds, pushes a reload to
\* that leader, whatever the node's server flag and the outcome of the peer
\* update; when the lookup fails no reload is pushed.
C16_ForceReloadsIfLeaderFound ==
    \A i \in 1..Len(tasks) :
        (tasks[i].kind = "runForceServerUpdate" /\ tasks[i].done) =>
            /\ tasks[i].calls[1].op = "PublishPeerUpdate" /\ tasks[i].calls[1].to = tasks[i].node.id
            /\ HasCall(tasks[i].calls, "ServerUpdate", "leader") <=> ~tasks[i].met.leaderErr
            /\ Len(tasks[i].calls) = (IF tasks[i].met.leaderErr THEN 1 ELSE 2)

\* the peer update for a server node failed and the leader was still reloaded
C16_Witness ==
    \E i \in 1..Len(tasks) :
        /\ tasks[i].kind = "runForceServerUpdate" /\ tasks[i].done /\ tasks[i].node.isserver = "yes"
        /\ tasks[i].calls = << Call("PublishPeerUpdate", tasks[i].node.id, TRUE), Call("ServerUpdate", "leader", FALSE) >>

----------------------------------------------------------------------------
(* Claims about deleting relayed nodes, parallel updates and repeated repairs *)

\* C12 (as claimed): once Delete of a relayed node has completed, no relay's target
\* list contains an address of the deleted node.
C12_DeletedNodeLeavesRelayList ==
    (last.handler = "deleteNode" /\ last.code = "ok") =>
        \A i \in TasksOf(last.req, "runUpdates") :
            tasks[i].node.isrelayed = "yes" =>
                \A id \in DOMAIN nodes :
                    nodes[id].isrelay = "yes" =>
                        /\ Count(nodes[id].relayaddrs, tasks[i].node.address) = 0
                        /\ tasks[i].node.address6 # "" => Count(nodes[id].relayaddrs, tasks[i].node.address6) = 0

\* C17 (as claimed): when two updateNode calls that change the addresses of two
\* different nodes relayed by the same relay are served in parallel, then, however
\* their loads, repairs and writes interleave, once both have completed the
\* relay's list holds each node's new address once and neither old address.
C17_RaceTolerated ==
    (\A p \in 1..Len(procs) : procs[p].pc = "done") =>
        \A p \in 1..Len(procs) :
            (procs[p].relay # <<>>) =>
                LET list == nodes[procs[p].relay[1].id].relayaddrs
                IN /\ Count(list, procs[p].newNode[1].address) = 1
                   /\ Count(list, procs[p].node[1].address) = 0

\* C19 (as claimed): updateRelay applied a second time with the same old and new
\* node leaves the relay's list as the first application left it.
C19_RepairIdempotent ==
    [][(upd.n >= 1 /\ upd'.n = upd.n + 1) => (\A id \in DOMAIN nodes : nodes'[id].relayaddrs = nodes[id].relayaddrs)]_vars

----------------------------------------------------------------------------
(* Claims about the propagations for the nodes a relay fronts *)

\* C21 (as claimed): when an Update changes a relay's own target list, every node
\* the relay repair returned gets its own propagation: each goroutine started for
\* such a node publishes the node update addressed to that node, whenever it runs.
C21_EachFrontedNodeNotified ==
    \A i \in 1..Len(tasks) :
        (tasks[i].by = "updateNode" /\ tasks[i].kind = "runUpdates" /\ tasks[i].done) =>
            /\ tasks[i].calls[1].op = "NodeUpdate"
            /\ tasks[i].calls[1].to = tasks[i].node.id

----------------------------------------------------------------------------
(* Claims about the listing of nodes *)

\* the last request reached getAllNodes
Listing == last.handler = "getAllNodes"
\* the caller's token was verified as a user who is not an admin
NonAdminUser == auth.cred.bearer /\ ~auth.cred.user.err /\ ~auth.cred.user.isadmin
\* the same request with the other value of the client's ismasterkey header
Twin == ListRequest(nodes, auth.cred, [auth.clientHdrs EXCEPT !.ismasterkey = IF @ = "yes" THEN "" ELSE "yes"], auth.getUserErr, auth.allErr, auth.failing)

\* C22 (as claimed): the ismasterkey marker that getAllNodes sees is there only when
\* authorize verified the caller as admin, and for a non-admin user the response
\* does not depend on the headers the client sent: the same request with the other
\* ismasterkey header gets the same answer, which holds only nodes of the user's
\* networks.
C22_MarkerOnlyFromAuthorize ==
    Listing =>
        /\ (auth.out.hdrs.ismasterkey = "yes" => IsMasterCred)
        /\ NonAdminUser =>
              /\ Twin.r.code = last.code
              /\ Twin.r.body = last.body
              /\ \A k \in 1..Len(last.body) : nodes[last.body[k]].network \in auth.cred.user.networks

\* the networks of the caller's record whose lookup succeeded
Looked == {n \in Range(GetUser(auth.out.hdrs.user, auth.getUserErr).networks) : n \notin auth.failing}

----------------------------------------------------------------------------
(* Claims about registration through nodeauth *)

\* the access keys of the network a registration path names (none for a network
\* that does not exist)
PathKeys == IF auth.params.network \in DOMAIN RegistryKeys THEN RegistryKeys[auth.params.network] ELSE {}
\* the last request was a registration through nodeauth
Registration == nreq > 0 /\ "token" \in DOMAIN auth

\* C23 (as claimed): a registration reaches createNode only with a bearer token that
\* is an access key of the network its path names; with any other token nodeauth
\* answers unauthorized and no node is created.
C23_RegisterOnlyWithNetworkKey ==
    Registration =>
        /\ (last.handler = "createNode" => auth.token \in PathKeys)
        /\ (auth.token \notin PathKeys =>
               /\ auth.out.served = 0
               /\ last.code = "unauthorized"
               /\ IdSeq[nreq] \notin DOMAIN nodes)

====
